---- MODULE Spec2Model ----
(***************************************************************************)
(* Model of the video controller (getAllVideos, publishVideo,              *)
(* getVideoById, updateVideoInfo, deleteVideo, togglePublishStatus) and    *)
(* of the store collections it reads and writes.                           *)
(*                                                                         *)
(* Every handler is an async function run by asyncHandler: it ends either  *)
(* with res.status(200).json(...) or with a thrown error.  A response is   *)
(* recorded in `resp` with the request that produced it.                   *)
(***************************************************************************)
EXTENDS Integers, Sequences, FiniteSets, TLC

\* ------------------------------------------------------------------ bounds
MaxListed == 2          \* Video documents ever created under SpecListing
MaxViewed == 1          \* Video documents ever created under SpecDetail
MaxOwned == 1           \* Video documents ever created under SpecOwner
MaxLikes == 1           \* number of Like documents in the store
MaxSubscriptions == 1   \* number of Subscription documents in the store

\* ------------------------------------------------------------- identifiers
VideoPool == <<"v1", "v2", "v3", "v4">>
VideoIds == {VideoPool[i] : i \in 1..Len(VideoPool)}
Users == {"u1", "u2"}
NoUser == "nouser"      \* req.user is undefined
GhostId == "v0"         \* a well-formed id that no document carries
MalformedId == "zz"     \* a string that is not an ObjectId
EmptyId == ""           \* a falsy string

\* mongoose.isValidObjectId
isValidObjectId(id) == id \in VideoIds \cup Users \cup {GhostId}

\* ----------------------------------------------------- JavaScript numbers
Num(n) == [t |-> "num", v |-> n]
NaN == [t |-> "nan", v |-> 0]
Null == [t |-> "null", v |-> 0]

Digits == {"0", "1", "2", "3"}
DigitVal(c) == CASE c = "0" -> 0 [] c = "1" -> 1 [] c = "2" -> 2 [] OTHER -> 3

RECURSIVE DecVal(_)
DecVal(s) == IF s = <<>> THEN 0
             ELSE 10 * DecVal(SubSeq(s, 1, Len(s) - 1)) + DigitVal(s[Len(s)])

AllDigits(s) == \A i \in 1..Len(s) : s[i] \in Digits

RECURSIVE DigitPrefix(_)
DigitPrefix(s) == IF s = <<>> \/ Head(s) \notin Digits THEN <<>>
                  ELSE <<Head(s)>> \o DigitPrefix(Tail(s))

\* a query parameter: absent, or the raw string of the URL
Missing == [given |-> FALSE, s |-> <<>>]
Raw(s) == [given |-> TRUE, s |-> s]
NoOwnerFilter == [given |-> FALSE, s |-> ""]

\* Number(s), the coercion the operators * - < apply to a string
StrToNumber(s) ==
    IF s = <<>> THEN Num(0)
    ELSE IF AllDigits(s) THEN Num(DecVal(s))
    ELSE IF Head(s) = "-" /\ Len(s) > 1 /\ AllDigits(Tail(s)) THEN Num(0 - DecVal(Tail(s)))
    ELSE NaN

\* parseInt(s): an optional sign and the longest prefix of digits
StrParseInt(s) ==
    LET neg == s # <<>> /\ Head(s) = "-"
        body == IF neg THEN Tail(s) ELSE s
        pre == DigitPrefix(body)
    IN IF pre = <<>> THEN NaN
       ELSE Num(IF neg THEN 0 - DecVal(pre) ELSE DecVal(pre))

Mul(a, b) == IF a.t = "nan" \/ b.t = "nan" THEN NaN ELSE Num(a.v * b.v)
Add(a, n) == IF a.t = "nan" THEN NaN ELSE Num(a.v + n)
Lt(a, n) == a.t = "num" /\ a.v < n
Gt(a, n) == a.t = "num" /\ a.v > n

\* ------------------------------------------------------------------ strings
Lower(c) == CASE c = "A" -> "a" [] c = "B" -> "b" [] c = "C" -> "c" [] OTHER -> c

\* { $regex: query, $options: "i" } on a query of letters: substring, any case
RegexMatch(title, q) ==
    \E i \in 0..(Len(title) - Len(q)) :
        \A j \in 1..Len(q) : Lower(title[i + j]) = Lower(q[j])

\* String.prototype.trim() === ""
TrimIsEmpty(s) == \A i \in 1..Len(s) : s[i] = " "

\* -------------------------------------------------------------------- state
VARIABLES
    videos,         \* Video collection: _id -> document
    created,        \* number of Video documents created so far
    likes,          \* Like collection: documents [video, likedBy]
    subscriptions,  \* Subscription collection: documents [subscriber, channel]
    watchHistory,   \* User collection: _id -> watchHistory of that user
    resp            \* the last response sent, with the request it answers

vars == <<videos, created, likes, subscriptions, watchHistory, resp>>

Stored == DOMAIN videos

NoArgs == [none |-> TRUE]
NoData == [none |-> TRUE]
NoResp == [op |-> "none", user |-> NoUser, videoId |-> EmptyId, args |-> NoArgs,
           kind |-> "none", status |-> 0, data |-> NoData]

\* res.status(200).json(new apiResponse(200, data, ...))
Ok(op, user, videoId, args, data) ==
    [op |-> op, user |-> user, videoId |-> videoId, args |-> args,
     kind |-> "ok", status |-> 200, data |-> data]

\* throw new apiError(status, ...)
ApiError(op, user, videoId, args, status) ==
    [op |-> op, user |-> user, videoId |-> videoId, args |-> args,
     kind |-> "apiError", status |-> status, data |-> NoData]

\* an exception that is no apiError (ReferenceError, TypeError, CastError,
\* BSONError, MongoServerError); asyncHandler decides its status.
Thrown(op, user, videoId, args, kind) ==
    [op |-> op, user |-> user, videoId |-> videoId, args |-> args,
     kind |-> kind, status |-> 0, data |-> NoData]

Init ==
    /\ videos = <<>>
    /\ created = 0
    /\ likes = {}
    /\ subscriptions = {}
    /\ watchHistory = [u \in Users |-> {}]
    /\ resp = NoResp

\* ------------------------------------------------------------ getAllVideos
DefaultPage == Num(1)
DefaultLimit == Num(10)

\* a query value used as a number / handed to parseInt
ToNumber(p, default) == IF p.given THEN StrToNumber(p.s) ELSE default
ParseInt(p, default) == IF p.given THEN StrParseInt(p.s) ELSE default

\* if (query) ... if (userId) ...: the filter of lines 35-41
Matches(id, query, userId) ==
    /\ (query.given /\ query.s # <<>>) => RegexMatch(videos[id].title, query.s)
    /\ (userId.given /\ userId.s # EmptyId) => videos[id].owner = userId.s

Matching(query, userId) == {id \in Stored : Matches(id, query, userId)}

\* $lookup users + $unwind "$owner": a video without a resolving owner drops out
Joined(query, userId) == {id \in Matching(query, userId) : videos[id].owner \in Users}

\* { $skip: (page - 1) * parseInt(limit) }
SkipArg(page, limit) == Mul(Add(ToNumber(page, DefaultPage), 0 - 1), ParseInt(limit, DefaultLimit))

\* { $limit: parseInt(limit) }
LimitArg(limit) == ParseInt(limit, DefaultLimit)

\* the store rejects a pipeline whose $skip is not a number >= 0 or whose
\* $limit is not a number > 0
PipelineRejected(page, limit) ==
    \/ ~ (SkipArg(page, limit).t = "num" /\ SkipArg(page, limit).v >= 0)
    \/ ~ (LimitArg(limit).t = "num" /\ LimitArg(limit).v > 0)

Min(a, b) == IF a < b THEN a ELSE b
Max(a, b) == IF a > b THEN a ELSE b

\* number of documents left after $skip and $limit
WindowSize(n, page, limit) ==
    Min(LimitArg(limit).v, Max(0, n - SkipArg(page, limit).v))

\* a boundary slip: <= for <
hasNextPageInclusive(page, limit, totalVideos) ==
    LET n == Mul(ToNumber(page, DefaultPage), ToNumber(limit, DefaultLimit))
    IN n.t = "num" /\ n.v <= totalVideos

\* const hasNextPage = page * limit < totalVideos
hasNextPage(page, limit, totalVideos) ==
    Lt(Mul(ToNumber(page, DefaultPage), ToNumber(limit, DefaultLimit)), totalVideos)

\* const hasPreviousPage = page > 1
hasPreviousPage(page) == Gt(ToNumber(page, DefaultPage), 1)

\* the payload of lines 91-98
ListingData(page, limit, totalVideos, window) ==
    [totalVideos |-> totalVideos,
     currentPage |-> ParseInt(page, DefaultPage),
     limit |-> ParseInt(limit, DefaultLimit),
     nextPage |-> IF hasNextPage(page, limit, totalVideos)
                  THEN Add(ParseInt(page, DefaultPage), 1) ELSE Null,
     previousPage |-> IF hasPreviousPage(page)
                      THEN Add(ParseInt(page, DefaultPage), 0 - 1) ELSE Null,
     videos |-> window]

ListingArgs(page, limit, query, userId) ==
    [page |-> page, limit |-> limit, query |-> query, userId |-> userId]

\* the empty check left out
ListingNeverEmpty(window) == FALSE

\* the response is empty-checked before it is sent: lines 80-82
ListingEmpty(window) == window = {}

\* lines 32-102.  countDocuments, aggregate and the response are taken as one
\* step.  The $sort stage orders the joined documents and neither adds nor
\* removes one: the window is any set of WindowSize of them.
getAllVideos(page, limit, query, userId) ==
    /\ LET a == ListingArgs(page, limit, query, userId)
           totalVideos == Cardinality(Matching(query, userId))
           joined == Joined(query, userId)
       IN IF userId.given /\ userId.s # EmptyId /\ ~ isValidObjectId(userId.s)
          THEN \* new mongoose.Types.ObjectId(userId) throws
               resp' = Thrown("getAllVideos", NoUser, EmptyId, a, "BSONError")
          ELSE IF PipelineRejected(page, limit)
          THEN resp' = Thrown("getAllVideos", NoUser, EmptyId, a, "MongoServerError")
          ELSE \E window \in SUBSET joined :
                  /\ Cardinality(window) = WindowSize(Cardinality(joined), page, limit)
                  /\ resp' = IF ListingEmpty(window)
                             THEN ApiError("getAllVideos", NoUser, EmptyId, a, 404)
                             ELSE Ok("getAllVideos", NoUser, EmptyId, a,
                                     ListingData(page, limit, totalVideos, window))
    /\ UNCHANGED <<videos, created, likes, subscriptions, watchHistory>>

\* ------------------------------------------------------------ publishVideo
VideoFileUrl == "f1"    \* videoFile.url of the uploaded media

\* what the try block of lines 111-131 meets: a missing req.files path, an
\* upload that returns nothing, or the url of the uploaded thumbnail
UploadFailures == {"noVideoPath", "noThumbnailPath", "noVideoFile", "noThumbnailFile"}

\* lines 104-150; upload is an upload failure or the thumbnail's url
publishVideo(u, title, description, upload) ==
    /\ IF TrimIsEmpty(title) \/ TrimIsEmpty(description)
       THEN /\ resp' = ApiError("publishVideo", u, EmptyId, NoArgs, 400)
            /\ UNCHANGED <<videos, created>>
       ELSE IF upload \in UploadFailures
       THEN \* thrown inside try, caught, rethrown as "Failed to upload video"
            /\ resp' = ApiError("publishVideo", u, EmptyId, NoArgs, 400)
            /\ UNCHANGED <<videos, created>>
       ELSE /\ LET id == VideoPool[created + 1]
                   doc == [title |-> title, description |-> description,
                           videoFile |-> VideoFileUrl, thumbnail |-> upload,
                           owner |-> u, isPublished |-> FALSE, views |-> 0]
               IN /\ videos' = [x \in Stored \cup {id} |-> IF x = id THEN doc ELSE videos[x]]
                  /\ resp' = Ok("publishVideo", u, id, NoArgs, doc)
            /\ created' = created + 1
    /\ UNCHANGED <<likes, subscriptions, watchHistory>>

\* ------------------------------------------------------------ getVideoById
\* lines 152-267.  Line 163 calls $match, which no import or declaration of
\* the module binds: evaluating the pipeline throws a ReferenceError before
\* Video.aggregate is called, so the statements of lines 247-266 never run.
getVideoById(u, videoId) ==
    /\ resp' = IF ~ isValidObjectId(videoId)
               THEN ApiError("getVideoById", u, videoId, NoArgs, 400)
               ELSE IF ~ isValidObjectId(u)
               THEN ApiError("getVideoById", u, videoId, NoArgs, 400)
               ELSE Thrown("getVideoById", u, videoId, NoArgs, "ReferenceError")
    /\ UNCHANGED <<videos, created, likes, subscriptions, watchHistory>>

\* ------------------------------------------------------- owner-only writes
\* the ownership comparison inverted: === for !==
notOwnerInverted(u, videoId) ==
    (IF videoId \in DOMAIN videos THEN videos[videoId].owner ELSE "undefined")
        = (IF u = "nouser" THEN "undefined" ELSE u)

\* x?.owner.toString() !== req.user?._id.toString(): undefined on either side
\* when the document or req.user is missing
OwnerString(videoId) == IF videoId \in Stored THEN videos[videoId].owner ELSE "undefined"
UserString(u) == IF u = NoUser THEN "undefined" ELSE u

notOwner(u, videoId) == OwnerString(videoId) # UserString(u)

\* Video.findById(id) casts id to an ObjectId and rejects when it cannot
CastFails(videoId) == ~ isValidObjectId(videoId)

\* what lines 288-297 meet: no req.file, an upload that returns null, an
\* upload without url, or the url of the uploaded thumbnail
ThumbnailFailures == {"noFile", "null", "noUrl"}

\* lines 269-322; upload is a thumbnail failure or the thumbnail's url.  The
\* fourth argument of findByIdAndUpdate (lines 311-313) takes no part in the
\* update.
updateVideoInfo(u, videoId, title, description, upload) ==
    /\ IF videoId = EmptyId
       THEN resp' = ApiError("updateVideoInfo", u, videoId, NoArgs, 400) /\ UNCHANGED videos
       ELSE IF title = <<>> \/ description = <<>>
       THEN resp' = ApiError("updateVideoInfo", u, videoId, NoArgs, 400) /\ UNCHANGED videos
       ELSE IF CastFails(videoId)
       THEN resp' = Thrown("updateVideoInfo", u, videoId, NoArgs, "CastError") /\ UNCHANGED videos
       ELSE IF notOwner(u, videoId)
       THEN resp' = ApiError("updateVideoInfo", u, videoId, NoArgs, 400) /\ UNCHANGED videos
       ELSE IF upload = "noFile"
       THEN resp' = ApiError("updateVideoInfo", u, videoId, NoArgs, 400) /\ UNCHANGED videos
       ELSE IF upload = "null"
       THEN \* thumbnail is null: thumbnail.url throws
            resp' = Thrown("updateVideoInfo", u, videoId, NoArgs, "TypeError") /\ UNCHANGED videos
       ELSE IF upload = "noUrl"
       THEN resp' = ApiError("updateVideoInfo", u, videoId, NoArgs, 400) /\ UNCHANGED videos
       ELSE IF videoId \notin Stored
       THEN \* findByIdAndUpdate returns null
            resp' = ApiError("updateVideoInfo", u, videoId, NoArgs, 400) /\ UNCHANGED videos
       ELSE /\ videos' = [videos EXCEPT ![videoId].title = title,
                                        ![videoId].description = description,
                                        ![videoId].thumbnail = upload]
            /\ resp' = Ok("updateVideoInfo", u, videoId, NoArgs, videos'[videoId])
    /\ UNCHANGED <<created, likes, subscriptions, watchHistory>>

\* lines 324-372; removed is the result of deleteVideoFromCloudinary
deleteVideo(u, videoId, removed) ==
    /\ IF videoId = EmptyId
       THEN resp' = ApiError("deleteVideo", u, videoId, NoArgs, 400) /\ UNCHANGED <<videos, likes>>
       ELSE IF CastFails(videoId)
       THEN resp' = Thrown("deleteVideo", u, videoId, NoArgs, "CastError") /\ UNCHANGED <<videos, likes>>
       ELSE IF videoId \notin Stored
       THEN resp' = ApiError("deleteVideo", u, videoId, NoArgs, 400) /\ UNCHANGED <<videos, likes>>
       ELSE IF notOwner(u, videoId)
       THEN resp' = ApiError("deleteVideo", u, videoId, NoArgs, 400) /\ UNCHANGED <<videos, likes>>
       ELSE IF videos[videoId].videoFile = "" \/ videos[videoId].thumbnail = ""
       THEN resp' = ApiError("deleteVideo", u, videoId, NoArgs, 400) /\ UNCHANGED <<videos, likes>>
       ELSE IF ~ removed
       THEN resp' = ApiError("deleteVideo", u, videoId, NoArgs, 500) /\ UNCHANGED <<videos, likes>>
       ELSE /\ videos' = [x \in Stored \ {videoId} |-> videos[x]]
            /\ likes' = {l \in likes : l.video # videoId}
            /\ resp' = Ok("deleteVideo", u, videoId, NoArgs, NoData)
    /\ UNCHANGED <<created, subscriptions, watchHistory>>

\* lines 374-414.  Line 392 reads `video` inside the initializer of
\* `const video`: for a caller who passes the owner check the read throws a
\* ReferenceError (temporal dead zone) before findByIdAndUpdate is called.
togglePublishStatus(u, videoId) ==
    /\ resp' = IF videoId = EmptyId
               THEN ApiError("togglePublishStatus", u, videoId, NoArgs, 400)
               ELSE IF CastFails(videoId)
               THEN Thrown("togglePublishStatus", u, videoId, NoArgs, "CastError")
               ELSE IF notOwner(u, videoId)
               THEN ApiError("togglePublishStatus", u, videoId, NoArgs, 400)
               ELSE Thrown("togglePublishStatus", u, videoId, NoArgs, "ReferenceError")
    /\ UNCHANGED <<videos, created, likes, subscriptions, watchHistory>>

\* ------------------------------------------------ the other controllers
\* a Like document for a stored video is added by the like controller, which
\* answers its own request
likeVideo(u, videoId) ==
    /\ videoId \in Stored
    /\ Cardinality(likes) < MaxLikes
    /\ [video |-> videoId, likedBy |-> u] \notin likes
    /\ likes' = likes \cup {[video |-> videoId, likedBy |-> u]}
    /\ resp' = Ok("likeVideo", u, videoId, NoArgs, NoData)
    /\ UNCHANGED <<videos, created, subscriptions, watchHistory>>

\* a Subscription document (schema of lines 3-17) is added by the subscription
\* controller, which answers its own request
subscribe(u, channel) ==
    /\ Cardinality(subscriptions) < MaxSubscriptions
    /\ [subscriber |-> u, channel |-> channel] \notin subscriptions
    /\ subscriptions' = subscriptions \cup {[subscriber |-> u, channel |-> channel]}
    /\ resp' = Ok("subscribe", u, EmptyId, NoArgs, NoData)
    /\ UNCHANGED <<videos, created, likes, watchHistory>>

\* ------------------------------------------------------------------ inputs
Titles == {<<>>, <<"a", "b">>, <<"B", "c">>}
Descriptions == {<<"d">>}
PublishedThumbnails == {"t1"}
UpdatedThumbnails == {"t2"}
Requesters == Users \cup {NoUser}
RequestIds == {VideoPool[i] : i \in 1..created} \cup {GhostId, MalformedId, EmptyId}

Pages == {Missing, Raw(<<"0">>), Raw(<<"1">>), Raw(<<"2">>), Raw(<<"2", "a">>)}
Limits == {Missing, Raw(<<"0">>), Raw(<<"1">>), Raw(<<"2">>), Raw(<<"1", "a">>)}
Queries == {Missing, Raw(<<"C">>), Raw(<<"z">>)}
OwnerFilters == {NoOwnerFilter, Raw("u1"), Raw(MalformedId)}

Publish ==
    \E u \in Users, title \in Titles, description \in Descriptions,
       upload \in UploadFailures \cup PublishedThumbnails :
        publishVideo(u, title, description, upload)

\* pagination and text search together, the owner filter on the default page
ListingRequests ==
    {ListingArgs(page, limit, query, NoOwnerFilter) :
        page \in Pages, limit \in Limits, query \in Queries}
    \cup {ListingArgs(Missing, Missing, Missing, userId) : userId \in OwnerFilters}

List == \E r \in ListingRequests : getAllVideos(r.page, r.limit, r.query, r.userId)

Detail == \E u \in Requesters, videoId \in RequestIds : getVideoById(u, videoId)

Update ==
    \E u \in Requesters, videoId \in RequestIds, title \in Titles, description \in Descriptions,
       upload \in ThumbnailFailures \cup UpdatedThumbnails :
        updateVideoInfo(u, videoId, title, description, upload)

Delete == \E u \in Requesters, videoId \in RequestIds, removed \in BOOLEAN : deleteVideo(u, videoId, removed)

Toggle == \E u \in Requesters, videoId \in RequestIds : togglePublishStatus(u, videoId)

Like == \E u \in Users, videoId \in Stored : likeVideo(u, videoId)

Subscribe == \E u \in Users, channel \in Users : subscribe(u, channel)

\* ---------------------------------------------------------- specifications
\* the listing endpoint against a store that changes by the publishes and the
\* owners' deletes that go through
Published ==
    \E u \in Users, title \in Titles \ {<<>>}, description \in Descriptions,
       upload \in PublishedThumbnails :
        publishVideo(u, title, description, upload)

Deleted == \E videoId \in Stored : deleteVideo(videos[videoId].owner, videoId, TRUE)

NextListing == (created < MaxListed /\ Published) \/ Deleted \/ List
SpecListing == Init /\ [][NextListing]_vars

\* the detail endpoint against a store with likes and subscriptions
NextDetail == (created < MaxViewed /\ Publish) \/ Like \/ Subscribe \/ Detail
SpecDetail == Init /\ [][NextDetail]_vars

\* the owner-only writes
NextOwner == (created < MaxOwned /\ Publish) \/ Like \/ Update \/ Delete \/ Toggle
SpecOwner == Init /\ [][NextOwner]_vars

\* ------------------------------------------------- properties: listing
\* what a request asks for, read off the raw query string
IsPositiveInteger(p) == ~ p.given \/ (p.s # <<>> /\ AllDigits(p.s) /\ DecVal(p.s) > 0)
IntegerOf(p, default) == IF p.given THEN DecVal(p.s) ELSE default
WellFormedOwner(userId) == ~ userId.given \/ isValidObjectId(userId.s)

ListingAnswered == resp.op = "getAllVideos"
ListingReturned == ListingAnswered /\ resp.kind = "ok"
NotFound == resp.kind = "apiError" /\ resp.status = 404

\* C1: a successful listing for positive integers page and limit carries
\* totalVideos = the number of videos matching the filter, currentPage = page,
\* nextPage = page + 1 if page * limit < totalVideos and null otherwise,
\* previousPage = page - 1 if page > 1 and null otherwise.
C1_PaginationConsistent ==
    [][(ListingReturned' /\ IsPositiveInteger(resp'.args.page)
                         /\ IsPositiveInteger(resp'.args.limit))
       => LET page == IntegerOf(resp'.args.page, 1)
              limit == IntegerOf(resp'.args.limit, 10)
              d == resp'.data
          IN /\ d.totalVideos = Cardinality(Matching(resp'.args.query, resp'.args.userId))
             /\ d.currentPage = Num(page)
             /\ d.nextPage = (IF page * limit < d.totalVideos THEN Num(page + 1) ELSE Null)
             /\ d.previousPage = (IF page > 1 THEN Num(page - 1) ELSE Null)]_vars

\* C1 witness: page 1 of a listing with one video per page and a second page
C1_Witness ==
    /\ ListingReturned
    /\ resp.args.page = Raw(<<"1">>) /\ resp.args.limit = Raw(<<"1">>)
    /\ resp.data.totalVideos = 2
    /\ resp.data.nextPage = Num(2) /\ resp.data.previousPage = Null

\* C2: a listing never succeeds with an empty videos list, and a well-formed
\* request whose filter and page window select no video (no match, or a page
\* past the last match) is answered 404.
C2_EmptyListingIsNotFound ==
    [][ListingAnswered'
       => /\ (resp'.kind = "ok" => resp'.data.videos # {})
          /\ (/\ IsPositiveInteger(resp'.args.page)
              /\ IsPositiveInteger(resp'.args.limit)
              /\ WellFormedOwner(resp'.args.userId)
              /\ Cardinality(Matching(resp'.args.query, resp'.args.userId))
                   <= (IntegerOf(resp'.args.page, 1) - 1) * IntegerOf(resp'.args.limit, 10)
              => NotFound')]_vars

\* C2 witness: videos are stored, the query matches no title, the answer is 404
C2_Witness ==
    /\ ListingAnswered /\ NotFound
    /\ Stored # {}
    /\ resp.args.query = Raw(<<"z">>)
    /\ Matching(resp.args.query, resp.args.userId) = {}

\* C9 (the part that does not rest on how a thrown error is classified): a
\* request whose page or limit is not a positive integer, or whose userId is
\* not a well-formed identifier, is never answered with a listing.
C9_InvalidRequestGetsNoListing ==
    (/\ ListingAnswered
     /\ \/ ~ IsPositiveInteger(resp.args.page)
        \/ ~ IsPositiveInteger(resp.args.limit)
        \/ ~ WellFormedOwner(resp.args.userId))
    => resp.kind # "ok"

\* -------------------------------------------------- properties: detail
\* a detail request with a well-formed videoId by an authenticated viewer
DetailAnswered ==
    /\ resp.op = "getVideoById"
    /\ isValidObjectId(resp.videoId)
    /\ resp.user \in Users

LikesOf(videoId) == {l \in likes : l.video = videoId}
SubscribersOf(channel) == {x \in subscriptions : x.channel = channel}

\* C3: a detail request for a well-formed id that no stored Video carries is
\* answered with a not-found error.
C3_MissingVideoIsNotFound ==
    (DetailAnswered /\ resp.videoId \notin {VideoPool[i] : i \in 1..created})
    => NotFound

\* C4: the video returned for a stored video has likesCount = the number of
\* its Like records and isLiked = whether one of them is the viewer's.
C4_LikesShaped ==
    [][(DetailAnswered' /\ resp'.videoId \in Stored)
       => /\ resp'.kind = "ok"
          /\ resp'.data.likesCount = Cardinality(LikesOf(resp'.videoId))
          /\ resp'.data.isLiked = (\E l \in LikesOf(resp'.videoId) : l.likedBy = resp'.user)]_vars

\* C5: the owner summary of the video returned for a stored video has
\* subscribersCount = the number of Subscription records of the owner's
\* channel and isSubscribed = whether one of them is the viewer's.
C5_SubscribersShaped ==
    [][(DetailAnswered' /\ resp'.videoId \in Stored)
       => /\ resp'.kind = "ok"
          /\ resp'.data.owner.subscribersCount
               = Cardinality(SubscribersOf(videos[resp'.videoId].owner))
          /\ resp'.data.owner.isSubscribed
               = (\E x \in SubscribersOf(videos[resp'.videoId].owner) : x.subscriber = resp'.user)]_vars

\* C6: a detail retrieval of a stored video raises that video's view counter
\* by exactly one and leaves every other video's counter alone.
C6_ViewCounted ==
    [][(DetailAnswered' /\ resp'.videoId \in Stored)
       => /\ resp'.status = 200
          /\ \A id \in Stored :
                videos'[id].views = videos[id].views + (IF id = resp'.videoId THEN 1 ELSE 0)]_vars

\* C7: after a detail retrieval of a stored video the video's identifier is
\* in the viewer's watch history.
C7_HistoryRecorded ==
    (DetailAnswered /\ resp.videoId \in Stored) => resp.videoId \in watchHistory[resp.user]

\* C8: a detail request whose video read succeeds (the video is stored) is
\* answered with the successful response, whatever happens to the two writes.
C8_ReadAloneDecides ==
    (DetailAnswered /\ resp.videoId \in Stored) => (resp.kind = "ok" /\ resp.status = 200)

\* --------------------------------------------------- properties: owner
OwnerOnlyOps == {"updateVideoInfo", "deleteVideo", "togglePublishStatus"}

\* C10: an update, delete or toggle request by an authenticated user who is
\* not the owner of the stored video ends in an error and leaves every Video
\* and every Like record unchanged.
C10_OwnerOnly ==
    [][(/\ resp'.op \in OwnerOnlyOps
        /\ resp'.user \in Users
        /\ resp'.videoId \in Stored
        /\ videos[resp'.videoId].owner # resp'.user)
       => /\ resp'.kind # "ok"
          /\ videos' = videos
          /\ likes' = likes]_vars

\* C10 witness: a non-owner's delete of a liked video was refused
C10_Witness ==
    /\ resp.op = "deleteVideo"
    /\ resp.user \in Users
    /\ resp.videoId \in Stored
    /\ videos[resp.videoId].owner # resp.user
    /\ resp.kind = "apiError"
    /\ LikesOf(resp.videoId) # {}

====
